---- MODULE Spec2Model ----
(***************************************************************************)
(* Model of src/src/sdt.rs: the system description table buffer `Sdt` and  *)
(* the `GenericAddress` factories.                                         *)
(*                                                                         *)
(* Byte offsets are the source's (0-based); sequences are 1-based, so the  *)
(* byte at offset k of a buffer d is d[k + 1].                             *)
(*                                                                         *)
(* Target assumptions that the source leaves to the build:                 *)
(*  - little-endian target, so a typed store of an integer lays down the   *)
(*    same bytes as to_le_bytes;                                           *)
(*  - `build` is "debug" (overflow checks and debug assertions on: an      *)
(*    arithmetic overflow panics, a misaligned raw-pointer dereference     *)
(*    panics) or "release" (arithmetic wraps, no check on the pointer);    *)
(*  - usize is UsizeBits wide.                                             *)
(* A store through the raw pointer that is undefined behaviour (outside    *)
(* the allocation, or misaligned in a release build) has any outcome; the  *)
(* status "ub" stands for all the outcomes other than the store going      *)
(* through, and nothing is claimed of a state with that status.            *)
(***************************************************************************)
EXTENDS Integers, Sequences, FiniteSets, TLC

\* ---------------------------------------------------------------- bounds
\* Operations per run, Sdt::new included.
MaxOps == 3
\* Width of usize in bits.
UsizeBits == 16
\* Largest body (bytes past the header) requested from Sdt::new.
MaxBody == 4
\* Largest size_of::<T>() given to the GenericAddress factories.
MaxSizeOf == 257

\* ------------------------------------------------------- program constants
\* sdt.rs:61, sdt.rs:73: the fixed header size.
HeaderLen == 36
\* sdt.rs:96, sdt.rs:103: offset of the u32 length field.
LengthOffset == 4
\* sdt.rs:83, sdt.rs:85: offset of the checksum byte.
ChecksumOffset == 9

UsizeMod == 2 ^ UsizeBits
UsizeMax == UsizeMod - 1

\* crate::CREATOR_ID and crate::CREATOR_REVISION, 4 bytes each, defined
\* outside sdt.rs.
CREATOR_ID == <<82, 86, 65, 84>>
CREATOR_REVISION == <<0, 0, 0, 1>>

\* ------------------------------------------------------------- byte helpers
\* u8::wrapping_add
wrapping_add(a, b) == (a + b) % 256

\* iter().fold(0u8, |acc, x| acc.wrapping_add(*x)) over the bytes d[lo..hi].
\* wrapping_add is associative, so the fold is taken by halves, which keeps
\* the evaluation shallow.
RECURSIVE fold_sum(_, _, _)
fold_sum(d, lo, hi) ==
    IF lo > hi THEN 0
    ELSE IF lo = hi THEN wrapping_add(0, d[lo])
    ELSE LET mid == (lo + hi) \div 2
         IN  wrapping_add(fold_sum(d, lo, mid), fold_sum(d, mid + 1, hi))

\* super::generate_checksum: (255 - sum).wrapping_add(1)
generate_checksum(d) == wrapping_add(255 - fold_sum(d, 1, Len(d)), 1)

\* The n bytes of the integer v in memory on the (little-endian) target;
\* what to_le_bytes returns.
RECURSIVE to_le_bytes(_, _)
to_le_bytes(v, n) == IF n = 0 THEN <<>> ELSE <<v % 256>> \o to_le_bytes(v \div 256, n - 1)

\* Reading a little-endian u32 back from four bytes.
from_le_bytes(b) == b[1] + 256 * b[2] + 65536 * b[3] + 16777216 * b[4]

\* n zero bytes
RECURSIVE Zeros(_)
Zeros(n) == IF n = 0 THEN <<>> ELSE <<0>> \o Zeros(n - 1)

\* `x as u32` for a usize x. usize is at most 32 bits wide here, so the
\* cast keeps every value.
as_u32(x) == x

\* `length as usize` for a u32 length: truncation to the width of usize.
as_usize(x) == x % UsizeMod

\* ------------------------------------------------------------------ types
\* A storage type T is its size_of and align_of.
TyUnit == [name |-> "()", size |-> 0, align |-> 1]
TyU8 == [name |-> "u8", size |-> 1, align |-> 1]
TyU16 == [name |-> "u16", size |-> 2, align |-> 2]
TyU32 == [name |-> "u32", size |-> 4, align |-> 4]
TyU64 == [name |-> "u64", size |-> 8, align |-> 8]
\* #[repr(packed)] GenericAddress: 12 bytes, alignment 1.
TyGenericAddress == [name |-> "GenericAddress", size |-> 12, align |-> 1]

\* ------------------------------------------------------------------ state
VARIABLES
    data,      \* Sdt.data: the bytes of the table
    base,      \* data.as_mut_ptr() as usize, modulo the largest alignment
    status,    \* "none": no table yet; "ok"; "panic": the last operation
               \* panicked; "ub": the last operation's store was undefined
    build,     \* "debug" or "release"
    nops,      \* operations run so far
    last,      \* the last operation: its name, arguments and the buffer before
    ga         \* the last GenericAddress built, with the arguments

vars == <<data, base, status, build, nops, last, ga>>

Builds == {"debug", "release"}

\* Residues, modulo 8, of the addresses the allocator hands out for a
\* Vec<u8> (an alignment of 1 is all the Vec asks for).
AllocResidues == {0, 1}

NoOp == [op |-> "none", offset |-> 0, bytes |-> <<>>, length |-> 0, pre |-> <<>>]
NoGA == [factory |-> "none", size_of |-> 0, arg |-> 0, panicked |-> FALSE,
         address_space_id |-> 0, register_bit_width |-> 0,
         register_bit_offset |-> 0, access_size |-> 0, address |-> 0]

Init ==
    /\ data = <<>>
    /\ base = 0
    /\ status = "none"
    /\ build \in Builds
    /\ nops = 0
    /\ last = NoOp
    /\ ga = NoGA

\* An operation's outcome: how it ended and the buffer it left.
Outcome(st, d) == [st |-> st, d |-> d]

\* ---------------------------------------------------------- update_checksum
\* Faulty variant: the checksum is stored one byte early.
update_checksum_at8(d) ==
    LET z == [d EXCEPT ![ChecksumOffset + 1] = 0]
    IN  [z EXCEPT ![ChecksumOffset] = generate_checksum(z)]

\* Faulty variant: the old checksum byte is not zeroed before the sum.
update_checksum_nozero(d) ==
    [d EXCEPT ![ChecksumOffset + 1] = generate_checksum(d)]

\* self.data[9] = 0; checksum = generate_checksum(data); self.data[9] = checksum
update_checksum(d) ==
    LET z == [d EXCEPT ![ChecksumOffset + 1] = 0]
    IN  [z EXCEPT ![ChecksumOffset + 1] = generate_checksum(z)]

\* ------------------------------------------------------------------ Sdt::new
\* Faulty variant: a header-only table is refused.
new_precondition_strict(length) == length > HeaderLen

\* assert!(length >= 36)
new_precondition(length) == length >= HeaderLen

\* The 36 header bytes pushed by Sdt::new, the checksum byte still 0.
header(signature, length, revision, oem_id, oem_table, oem_revision) ==
    signature \o to_le_bytes(length, 4) \o <<revision>> \o <<0>> \o oem_id
    \o oem_table \o to_le_bytes(oem_revision, 4) \o CREATOR_ID \o CREATOR_REVISION

\* data.resize(n, 0) for n >= Len(d)
resize(d, n) == d \o Zeros(n - Len(d))

new(signature, length, revision, oem_id, oem_table, oem_revision) ==
    IF ~new_precondition(length) THEN Outcome("panic", <<>>)
    ELSE LET h == header(signature, length, revision, oem_id, oem_table, oem_revision)
         IN  IF Len(h) # HeaderLen THEN Outcome("panic", <<>>)
             ELSE Outcome("ok", update_checksum(resize(h, as_usize(length))))

\* ---------------------------------------------------------------- Sdt::write
\* assert!((offset + (size_of::<T>() - 1)) < self.data.len()), on the value
\* lastbyte the usize arithmetic gave for offset + (size_of::<T>() - 1)
write_precondition(lastbyte, len) == lastbyte < len

\* *((ptr + offset) as *mut T) = value, for a range inside the buffer
\* Faulty variant: the store lands one byte late (and is dropped at the end
\* of the buffer).
store_shifted(d, offset, bytes) ==
    IF offset + Len(bytes) < Len(d)
    THEN SubSeq(d, 1, offset + 1) \o bytes \o SubSeq(d, offset + Len(bytes) + 2, Len(d))
    ELSE d

store(d, offset, bytes) ==
    SubSeq(d, 1, offset) \o bytes \o SubSeq(d, offset + Len(bytes) + 1, Len(d))

\* Whether the address of data[offset] is a multiple of align_of::<T>().
aligned(b, offset, ty) == (b + offset) % ty.align = 0

\* Sdt::write::<T>(offset, value) on buffer d whose pointer has residue b; bytes
\* are the size_of::<T>() bytes of value. The set of its outcomes.
write(d, b, bld, offset, ty, bytes) ==
    LET s == ty.size
        checked == (bld = "debug")
    IN  IF s = 0 /\ checked
        THEN {Outcome("panic", d)}           \* size_of::<T>() - 1 overflows
        ELSE
        LET sm1 == (s - 1) % UsizeMod
            sum == offset + sm1
        IN  IF sum > UsizeMax /\ checked
            THEN {Outcome("panic", d)}       \* offset + (size - 1) overflows
            ELSE IF ~write_precondition(sum % UsizeMod, Len(d))
            THEN {Outcome("panic", d)}       \* the assertion fails
            ELSE IF offset + s > Len(d)
            THEN {Outcome("ub", d)}          \* the store leaves the buffer
            ELSE IF ~aligned(b, offset, ty)
            THEN IF checked
                 THEN {Outcome("panic", d)}  \* misaligned pointer dereference
                 ELSE {Outcome("ok", update_checksum(store(d, offset, bytes))),
                       Outcome("ub", d)}
            ELSE {Outcome("ok", update_checksum(store(d, offset, bytes)))}

write_u8(d, b, bld, offset, val) == write(d, b, bld, offset, TyU8, to_le_bytes(val, 1))
write_u16(d, b, bld, offset, val) == write(d, b, bld, offset, TyU16, to_le_bytes(val, 2))
write_u32(d, b, bld, offset, val) == write(d, b, bld, offset, TyU32, to_le_bytes(val, 4))
\* The u64 val is hi * 2^32 + lo.
write_u64(d, b, bld, offset, lo, hi) ==
    write(d, b, bld, offset, TyU64, to_le_bytes(lo, 4) \o to_le_bytes(hi, 4))

\* ------------------------------------------------- Sdt::append, append_slice
\* The bytes write_u32(4, new_length as u32) stores.
RECURSIVE Reverse(_)
Reverse(q) == IF q = <<>> THEN <<>> ELSE Reverse(Tail(q)) \o <<Head(q)>>

\* Faulty variant: the length is stored big-endian.
length_field_be(new_length) == Reverse(to_le_bytes(as_u32(new_length), 4))

length_field(new_length) == to_le_bytes(as_u32(new_length), 4)

\* Sdt::append::<T>(value) on buffer d; b2 is the residue of the pointer after
\* the resize. The set of its outcomes.
append(d, b2, bld, ty, bytes) ==
    LET orig_length == Len(d)
        new_length == orig_length + ty.size
        d1 == resize(d, new_length)
        lenw == write(d1, b2, bld, LengthOffset, TyU32, length_field(new_length))
    IN  UNION {IF o.st = "ok" THEN write(o.d, b2, bld, orig_length, ty, bytes) ELSE {o} :
               o \in lenw}

\* Faulty variant: the slice is appended back to front.
extend_from_slice_reversed(d, slice) == d \o Reverse(slice)

\* self.data.extend_from_slice(data)
extend_from_slice(d, slice) == d \o slice

\* Sdt::append_slice(data) on buffer d whose pointer has residue b.
append_slice(d, b, bld, slice) ==
    LET orig_length == Len(d)
        new_length == orig_length + Len(slice)
        lenw == write(d, b, bld, LengthOffset, TyU32, length_field(new_length))
    IN  {IF o.st = "ok"
         THEN Outcome("ok", update_checksum(extend_from_slice(o.d, slice)))
         ELSE o : o \in lenw}

\* AmlSink::byte: self.append(byte)
byte(d, b2, bld, val) == append(d, b2, bld, TyU8, to_le_bytes(val, 1))

\* Sdt::len
len(d) == Len(d)

\* ------------------------------------------------------------ GenericAddress
\* `size_of::<T>() as u8`
size_of_as_u8(sz) == sz % 256

\* Faulty variant: the width is left in bytes.
register_bit_width_unscaled(sz) == size_of_as_u8(sz)

\* 8 * core::mem::size_of::<T>() as u8: the cast binds tighter than the
\* product, which is a u8 product. Its mathematical value; the u8 holds it
\* when it is at most 255.
register_bit_width(sz) == 8 * size_of_as_u8(sz)

\* u64::from(address) for a u16 address: zero extension keeps the value.
u64_from_u16(address) == address

\* The struct literal of both factories, id being the address_space_id.
generic_address(factory, id, sz, bld, arg, address) ==
    LET w == register_bit_width(sz)
    IN  IF w > 255 /\ bld = "debug"
        THEN [NoGA EXCEPT !.factory = factory, !.size_of = sz, !.arg = arg,
                          !.panicked = TRUE]
        ELSE [factory |-> factory, size_of |-> sz, arg |-> arg, panicked |-> FALSE,
              address_space_id |-> id,
              register_bit_width |-> w % 256,
              register_bit_offset |-> 0,
              access_size |-> size_of_as_u8(sz),
              address |-> address]

io_port_address(sz, bld, address) ==
    generic_address("io_port_address", 1, sz, bld, address, u64_from_u16(address))

mmio_address(sz, bld, address) ==
    generic_address("mmio_address", 0, sz, bld, address, address)

\* The 12 bytes of a GenericAddress in memory (address below 2^32).
ga_bytes(g) ==
    <<g.address_space_id, g.register_bit_width, g.register_bit_offset, g.access_size>>
    \o to_le_bytes(g.address, 4) \o Zeros(4)

\* ------------------------------------------------------------------- inputs
SizeOfs == 0..MaxSizeOf
IoPorts == {0, 1024, 65535}
MmioAddrs == {0, 4096, 2147483647}

Signature == <<84, 69, 83, 84>>                       \* b"TEST"
OemId == <<67, 76, 79, 85, 68, 72>>                   \* b"CLOUDH"
OemTable == <<84, 69, 83, 84, 84, 69, 83, 84>>        \* b"TESTTEST"
NewLengths == {HeaderLen - 1, HeaderLen, HeaderLen + 1, HeaderLen + MaxBody}

WriteOffsets(d) ==
    {LengthOffset, ChecksumOffset - 1, HeaderLen, Len(d) - 2, Len(d) - 1, UsizeMax}
\* Values written through the generic write::<T> and append::<T>.
GenericValues ==
    {[ty |-> TyUnit, bytes |-> <<>>],
     [ty |-> TyGenericAddress, bytes |-> ga_bytes(mmio_address(4, "release", 4096))]}
IntValues ==
    {[ty |-> TyU16, bytes |-> to_le_bytes(4660, 2)],          \* 0x1234
     [ty |-> TyU32, bytes |-> to_le_bytes(305419896, 4)],     \* 0x12345678
     [ty |-> TyU64, bytes |-> to_le_bytes(84281096, 4) \o to_le_bytes(16909060, 4)]}
Slices == {<<>>, <<170, 187, 204>>}                   \* [], [0xAA, 0xBB, 0xCC]

\* ------------------------------------------------------------------ actions
Record(op, offset, bytes, length) ==
    [op |-> op, offset |-> offset, bytes |-> bytes, length |-> length, pre |-> data]

Finish(o, b2, rec) ==
    /\ status' = o.st
    /\ data' = o.d
    /\ base' = b2
    /\ nops' = nops + 1
    /\ last' = rec
    /\ UNCHANGED <<build, ga>>

Sdt_new ==
    /\ status = "none" /\ nops < MaxOps
    /\ \E length \in NewLengths, b \in AllocResidues :
         Finish(new(Signature, length, 1, OemId, OemTable, 1), b,
                Record("new", 0, <<>>, length))

Sdt_append ==
    /\ status = "ok" /\ nops < MaxOps
    /\ \E v \in GenericValues \cup IntValues :
       \E b2 \in (IF v.ty.size = 0 THEN {base} ELSE AllocResidues) :
       \E o \in append(data, b2, build, v.ty, v.bytes) :
         Finish(o, b2, Record("append", Len(data), v.bytes, 0))

Sdt_append_slice ==
    /\ status = "ok" /\ nops < MaxOps
    /\ \E slice \in Slices :
       \E b2 \in (IF Len(slice) = 0 THEN {base} ELSE AllocResidues) :
       \E o \in append_slice(data, base, build, slice) :
         Finish(o, IF o.st = "ok" THEN b2 ELSE base,
                Record("append_slice", Len(data), slice, 0))

Sdt_byte ==
    /\ status = "ok" /\ nops < MaxOps
    /\ \E val \in {170}, b2 \in AllocResidues :
       \E o \in byte(data, b2, build, val) :
         Finish(o, b2, Record("byte", Len(data), to_le_bytes(val, 1), 0))

Sdt_write ==
    /\ status = "ok" /\ nops < MaxOps
    /\ \E v \in GenericValues, offset \in WriteOffsets(data) :
       \E o \in write(data, base, build, offset, v.ty, v.bytes) :
         Finish(o, base, Record("write", offset, v.bytes, 0))

Sdt_write_u8 ==
    /\ status = "ok" /\ nops < MaxOps
    /\ \E val \in {170}, offset \in WriteOffsets(data) \cup {ChecksumOffset} :
       \E o \in write_u8(data, base, build, offset, val) :
         Finish(o, base, Record("write", offset, to_le_bytes(val, 1), 0))

Sdt_write_u16 ==
    /\ status = "ok" /\ nops < MaxOps
    /\ \E val \in {4660}, offset \in WriteOffsets(data) :
       \E o \in write_u16(data, base, build, offset, val) :
         Finish(o, base, Record("write", offset, to_le_bytes(val, 2), 0))

Sdt_write_u32 ==
    /\ status = "ok" /\ nops < MaxOps
    /\ \E val \in {305419896}, offset \in WriteOffsets(data) :
       \E o \in write_u32(data, base, build, offset, val) :
         Finish(o, base, Record("write", offset, to_le_bytes(val, 4), 0))

Sdt_write_u64 ==
    /\ status = "ok" /\ nops < MaxOps
    /\ \E lo \in {84281096}, hi \in {16909060}, offset \in WriteOffsets(data) :
       \E o \in write_u64(data, base, build, offset, lo, hi) :
         Finish(o, base,
                Record("write", offset, to_le_bytes(lo, 4) \o to_le_bytes(hi, 4), 0))

GenericAddress_io_port_address ==
    /\ \E sz \in SizeOfs, address \in IoPorts :
         ga' = io_port_address(sz, build, address)
    /\ UNCHANGED <<data, base, status, build, nops, last>>

GenericAddress_mmio_address ==
    /\ \E sz \in SizeOfs, address \in MmioAddrs :
         ga' = mmio_address(sz, build, address)
    /\ UNCHANGED <<data, base, status, build, nops, last>>

Next ==
    \/ Sdt_new
    \/ Sdt_append
    \/ Sdt_append_slice
    \/ Sdt_byte
    \/ Sdt_write
    \/ Sdt_write_u8
    \/ Sdt_write_u16
    \/ Sdt_write_u32
    \/ Sdt_write_u64

Spec == Init /\ [][Next]_vars

NextGA ==
    \/ GenericAddress_io_port_address
    \/ GenericAddress_mmio_address

SpecGA == Init /\ [][NextGA]_vars

\* ------------------------------------------------------------------- claims
\* The u32 stored little-endian at bytes [4..8) of d.
LengthField(d) == from_le_bytes(SubSeq(d, LengthOffset + 1, LengthOffset + 4))

\* The byte of d at (0-based) offset k.
ByteAt(d, k) == d[k + 1]

Appends == {"append", "append_slice", "byte"}

\* Whether offset k lies in the range the last write or append stored to.
InStoredRange(k) == k >= last.offset /\ k < last.offset + Len(last.bytes)

\* C1: after every operation that returns (new, append, append_slice, write at
\* any offset, byte), the bytes of the buffer sum to 0 modulo 256.
C1_ChecksumZero ==
    status = "ok" => fold_sum(data, 1, Len(data)) = 0

\* C1's case: a write inside the header of a table that has a body returned
\* and changed the buffer.
C1_Witness ==
    /\ status = "ok" /\ last.op = "write"
    /\ last.offset < HeaderLen /\ Len(data) > HeaderLen
    /\ data # last.pre
    /\ ByteAt(data, ChecksumOffset) # 0

\* C2: in every state reached by new, append, append_slice and write (at any
\* in-bounds offset, those overlapping bytes 4..8 included), the u32 at bytes
\* [4..8) equals len().
C2_LengthFieldAlwaysLen ==
    status = "ok" => LengthField(data) = len(data)

\* C3: right after an append (append, append_slice, byte) returns, the u32 at
\* bytes [4..8) equals the new length, the old length plus the bytes appended.
C3_AppendSetsLength ==
    (status = "ok" /\ last.op \in Appends) =>
        /\ len(data) = Len(last.pre) + Len(last.bytes)
        /\ LengthField(data) = len(data)

\* C3's case: an append of at least one byte returned on a buffer whose length
\* field had been overwritten.
C3_Witness ==
    /\ status = "ok" /\ last.op \in Appends
    /\ Len(last.bytes) > 0
    /\ LengthField(last.pre) # Len(last.pre)
    /\ LengthField(data) = Len(data)

\* C4: new panics exactly when the requested length is below 36; otherwise it
\* returns a buffer of exactly that length whose bytes from offset 36 on are 0.
C4_NewMinimumLength ==
    last.op = "new" =>
        /\ status = "panic" <=> last.length < 36
        /\ last.length >= 36 =>
              /\ status = "ok"
              /\ len(data) = last.length
              /\ \A k \in 36..(Len(data) - 1) : ByteAt(data, k) = 0

\* C4's case: new with length 36 returned a header-only table.
C4_Witness ==
    /\ last.op = "new" /\ last.length = 36
    /\ status = "ok" /\ Len(data) = 36

\* C5, its first half: a write whose offset + size_of::<T>() exceeds the
\* length of the buffer fails on the precondition (the comparison being on
\* the true sum, also when offset + (size - 1) wraps in usize).
C5_WriteRejectsOutOfBounds ==
    (last.op = "write" /\ last.offset + Len(last.bytes) > Len(last.pre)) =>
        status = "panic"

\* C6: an append of n bytes to a buffer of length L gives a buffer of length
\* L + n whose bytes [L, L+n) are the appended bytes in order and whose bytes
\* [0, L) are unchanged but for the length field [4..8) and the checksum at 9.
C6_AppendContent ==
    (status = "ok" /\ last.op \in Appends) =>
        LET L == Len(last.pre)
            n == Len(last.bytes)
        IN  /\ Len(data) = L + n
            /\ SubSeq(data, L + 1, L + n) = last.bytes
            /\ \A k \in 0..(L - 1) :
                  (k \notin LengthOffset..(LengthOffset + 3) /\ k # ChecksumOffset)
                      => ByteAt(data, k) = ByteAt(last.pre, k)

\* C6's case: append_slice([0xAA, 0xBB, 0xCC]) on a 36-byte table returned.
C6_Witness ==
    /\ status = "ok" /\ last.op = "append_slice"
    /\ Len(last.pre) = 36 /\ last.bytes = <<170, 187, 204>>
    /\ Len(data) = 39 /\ LengthField(data) = 39

\* C7 as stated: for every storage type T both factories give
\* register_bit_width = 8 * size_of::<T>(), access_size = size_of::<T>(),
\* register_bit_offset = 0; mmio_address gives address_space_id 0 and the
\* address, io_port_address address_space_id 1 and the port zero-extended.
C7_FactoriesAnySize ==
    ga.factory # "none" =>
        /\ ~ga.panicked
        /\ ga.register_bit_width = 8 * ga.size_of
        /\ ga.access_size = ga.size_of
        /\ ga.register_bit_offset = 0
        /\ ga.address = ga.arg
        /\ ga.address_space_id = (IF ga.factory = "mmio_address" THEN 0 ELSE 1)

\* C7 amended: the same for every storage type T of at most 31 bytes (so that
\* 8 * size_of::<T>() fits the 8-bit field).
C7_FactoriesSmallSize ==
    (ga.factory # "none" /\ ga.size_of <= 31) =>
        /\ ~ga.panicked
        /\ ga.register_bit_width = 8 * ga.size_of
        /\ ga.access_size = ga.size_of
        /\ ga.register_bit_offset = 0
        /\ ga.address = ga.arg
        /\ ga.address_space_id = (IF ga.factory = "mmio_address" THEN 0 ELSE 1)

\* C7's case: mmio_address::<u32>(0x1000) was built.
C7_Witness ==
    /\ ga.factory = "mmio_address" /\ ga.size_of = 4 /\ ga.arg = 4096
    /\ ga.register_bit_width = 32 /\ ga.access_size = 4
    /\ ga.address_space_id = 0 /\ ga.address = 4096

\* C8: no partial failure: an operation that aborts has changed no byte and
\* not the length of the buffer, and one that returns leaves the checksum
\* consistent and (new and the appends) the length field consistent.
C8_NoPartialFailure ==
    /\ status = "panic" => data = last.pre
    /\ status = "ok" => fold_sum(data, 1, Len(data)) = 0
    /\ (status = "ok" /\ last.op \in Appends \cup {"new"}) =>
          LengthField(data) = Len(data)

\* C9 as stated: after a write that returned, the size_of::<T>() bytes at
\* offset are the bytes of value, for every in-bounds offset, those inside
\* the header included.
C9_WriteStoresValue ==
    (status = "ok" /\ last.op = "write") =>
        SubSeq(data, last.offset + 1, last.offset + Len(last.bytes)) = last.bytes

\* C9 amended: after a write that returned, every byte of the written range
\* other than the checksum byte at offset 9 is the matching byte of value.
C9_WriteStoresValueButChecksum ==
    (status = "ok" /\ last.op = "write") =>
        \A i \in 1..Len(last.bytes) :
            last.offset + i - 1 # ChecksumOffset
                => ByteAt(data, last.offset + i - 1) = last.bytes[i]

\* C9's case: a write of several bytes across offset 9 returned, and byte 9
\* holds a checksum that differs from the byte of value stored there.
C9_Witness ==
    /\ status = "ok" /\ last.op = "write"
    /\ Len(last.bytes) >= 2
    /\ InStoredRange(ChecksumOffset)
    /\ ByteAt(data, ChecksumOffset) # last.bytes[ChecksumOffset - last.offset + 1]
    /\ ByteAt(data, last.offset) = last.bytes[1]

\* C10: a write that returned left the length of the buffer as it was, and
\* every byte outside [offset, offset + size_of::<T>()) as it was, but for the
\* checksum byte at offset 9.
C10_WriteFrame ==
    (status = "ok" /\ last.op = "write") =>
        /\ Len(data) = Len(last.pre)
        /\ \A k \in 0..(Len(last.pre) - 1) :
              (~InStoredRange(k) /\ k # ChecksumOffset)
                  => ByteAt(data, k) = ByteAt(last.pre, k)

\* C10's case: write_u32(36, 0x12345678) on a 40-byte table returned.
C10_Witness ==
    /\ status = "ok" /\ last.op = "write"
    /\ Len(last.pre) = 40 /\ last.offset = 36
    /\ last.bytes = <<120, 86, 52, 18>>
    /\ SubSeq(data, 37, 40) = last.bytes

====
